---------------------------- MODULE Spec2Model ----------------------------
(***************************************************************************)
(* A model of the perceptron trainer of src/src/main.rs: the grid          *)
(* primitives (layer_fill_rect, layer_fill_circle), the shape generator    *)
(* (layer_random_rect, layer_random_circle), the classifier (feed_forward) *)
(* and the train / check passes driven by main.                            *)
(*                                                                         *)
(* Cell values are f64 in the program.  Every value the program ever       *)
(* stores is an integer of small magnitude (masks hold 0.0 and 1.0, the    *)
(* weights are sums and differences of masks), on which f64 arithmetic is  *)
(* exact, so cells are modelled as integers.                               *)
(*                                                                         *)
(* ChaCha8Rng belongs to an external crate.  What the program relies on is *)
(* that a generator built from a seed yields a fixed sequence of words:    *)
(* the sequence of each seed is chosen arbitrarily in Init (from the       *)
(* sequences of period StreamPeriod) and a generator is a seed and a       *)
(* position in that seed's sequence.                                       *)
(*                                                                         *)
(* WIDTH, HEIGHT, BIAS, SAMPLE_SIZE and TRAIN_PASSES are the program's      *)
(* constants scaled down (20, 20, 20, 75 and 2000 in the source).  Logging *)
(* and the creation of the data directory are not modelled.                *)
(***************************************************************************)
EXTENDS Integers, Sequences, FiniteSets

WIDTH == 3
HEIGHT == 3
SAMPLE_SIZE == 2
BIAS == 2
TRAIN_PASSES == 3
TRAIN_SEED == 69
CHECK_SEED == 420
I32_MAX == 2147483647

\* Bounds of the model.
StreamPeriod == 3      \* period of a seed's word sequence
MaxOff == 1            \* fill harness: coordinates range MaxOff cells past each edge
MaxExtent == 4         \* fill harness: largest width / height / radius passed
MaxWeight == 2         \* check harness: largest magnitude of an initial weight

VARIABLES
    pc,        \* control point of main / check_pass / train_pass
    stage,     \* which part of main is running: untrained / training / trained
    inputs,    \* main's `inputs` layer
    weights,   \* main's `weights` layer
    streams,   \* seed -> the word sequence ChaCha8Rng yields for that seed
    rng,       \* the live generator: [seed, pos]
    i,         \* sample index of the running pass (the `for _ in 0..SAMPLE_SIZE`)
    adjusted,  \* `adjusted` of the running pass
    count,     \* `count` of the running train_pass (names the snapshots)
    pass,      \* main's loop index `i` (number of completed passes)
    exit,      \* how main's training loop was left: none / break / end
    snaps,     \* the visualization sink: every layer_save_as_ppm call, in order
    passAdj,   \* the value each completed train_pass returned, in order
    checkAdj,  \* the value each completed check_pass returned, in order
    firstPass, \* the masks presented during the first training pass, in order
    mods,      \* samples of the running train_pass that changed a weight
    passWeights, \* the weights the running train_pass started from
    last       \* what the last fill / sample step did (its arguments and pre-state)

vars == << pc, stage, inputs, weights, streams, rng, i, adjusted, count, pass,
           exit, snaps, passAdj, checkAdj, firstPass, mods, passWeights, last >>

Rows == 0 .. (WIDTH - 1)     \* outer index of Layer = [[f64; HEIGHT]; WIDTH]
Cols == 0 .. (HEIGHT - 1)    \* inner index
Words == 0 .. (WIDTH - 1)    \* the words a stream yields (enough to reach every coordinate)

Uniform(c) == [y \in Rows |-> [x \in Cols |-> c]]
ZeroLayer == Uniform(0)

clampi(x, low, hight) ==
    IF x < low THEN low ELSE IF x > hight THEN hight ELSE x

\* The cells layer_fill_rect writes, as <<y, x>>: rows y0..=y1, columns x0..=x1.
FillRectCells(x, y, w, h) ==
    LET x0 == clampi(x, 0, WIDTH - 1)
        y0 == clampi(y, 0, HEIGHT - 1)
        x1 == clampi(x0 + w - 1, 0, WIDTH - 1)
        y1 == clampi(y0 + w - 1, 0, HEIGHT - 1)
    IN  {<<yy, xx>> : yy \in y0 .. y1, xx \in x0 .. x1}

\* The cells layer_fill_circle writes.
FillCircleCells(cx, cy, r) ==
    LET x0 == clampi(cx - r, 0, WIDTH - 1)
        y0 == clampi(cy - r, 0, HEIGHT - 1)
        x1 == clampi(cx + r, 0, WIDTH - 1)
        y1 == clampi(cy + r, 0, HEIGHT - 1)
    IN  {c \in {<<yy, xx>> : yy \in y0 .. y1, xx \in x0 .. x1} :
            (c[2] - cx) * (c[2] - cx) + (c[1] - cy) * (c[1] - cy) <= r * r}

\* layer[y as usize][x as usize] is in bounds.
InBounds(c) == c[1] \in Rows /\ c[2] \in Cols

\* A store of `value` into each cell of `cells`.
Store(layer, cells, value) ==
    [y \in Rows |-> [x \in Cols |-> IF <<y, x>> \in cells THEN value ELSE layer[y][x]]]

\* layer_fill_rect: panics when an assertion fails or an index is out of bounds.
FillRectPanics(x, y, w, h) ==
    ~(w > 0) \/ ~(h > 0) \/ \E c \in FillRectCells(x, y, w, h) : ~InBounds(c)

layer_fill_rect(layer, x, y, w, h, value) ==
    Store(layer, FillRectCells(x, y, w, h), value)

FillCirclePanics(cx, cy, r) ==
    ~(r > 0) \/ \E c \in FillCircleCells(cx, cy, r) : ~InBounds(c)

layer_fill_circle(layer, cx, cy, r, value) ==
    Store(layer, FillCircleCells(cx, cy, r), value)

RECURSIVE DotFrom(_, _, _)
DotFrom(a, b, k) ==
    IF k = HEIGHT * WIDTH THEN 0
    ELSE a[k \div WIDTH][k % WIDTH] * b[k \div WIDTH][k % WIDTH] + DotFrom(a, b, k + 1)

feed_forward(in, w) == DotFrom(in, w, 0)

add_inputs_from_weights(in, w) == [y \in Rows |-> [x \in Cols |-> w[y][x] + in[y][x]]]

sub_inputs_from_weights(in, w) == [y \in Rows |-> [x \in Cols |-> w[y][x] - in[y][x]]]

\* RectWrong with the comparison made non-strict.
RectWrongGe(ff) == ff >= BIAS

\* `feed_forward(inputs, weights) > BIAS`: a rectangle sample scored as too high.
RectWrong(ff) == ff > BIAS

\* `feed_forward(inputs, weights) < BIAS`: a circle sample scored as too low.
CircleWrong(ff) == ff < BIAS

\* ChaCha8Rng::seed_from_u64
seed_from_u64(seed) == [seed |-> seed, pos |-> 0]

\* rng.gen_range(lo..hi) at offset k of the generator's position.
gen_range(g, k, lo, hi) ==
    lo + (streams[g.seed][((g.pos + k) % StreamPeriod) + 1] % (hi - lo))

Max2(n) == IF n < 2 THEN 2 ELSE n

\* layer_random_rect without its zero fill.
layer_random_rect_nozero(layer, g) ==
    LET x == gen_range(g, 0, 0, WIDTH)
        y == gen_range(g, 1, 0, HEIGHT)
        w == gen_range(g, 2, 1, Max2(WIDTH - x))
        h == gen_range(g, 3, 1, Max2(HEIGHT - x))
    IN  [layer |-> layer_fill_rect(layer, x, y, w, h, 1),
         rng   |-> [g EXCEPT !.pos = g.pos + 4],
         panic |-> FillRectPanics(x, y, w, h),
         args  |-> [x |-> x, y |-> y, w |-> w, h |-> h]]

\* layer_random_rect: the layer it leaves, the generator after its four draws,
\* the rectangle it drew and whether a fill panicked.
layer_random_rect(layer, g) ==
    LET zeroed == layer_fill_rect(layer, 0, 0, WIDTH, HEIGHT, 0)
        x == gen_range(g, 0, 0, WIDTH)
        y == gen_range(g, 1, 0, HEIGHT)
        w == gen_range(g, 2, 1, Max2(WIDTH - x))
        h == gen_range(g, 3, 1, Max2(HEIGHT - x))
    IN  [layer |-> layer_fill_rect(zeroed, x, y, w, h, 1),
         rng   |-> [g EXCEPT !.pos = g.pos + 4],
         panic |-> FillRectPanics(0, 0, WIDTH, HEIGHT) \/ FillRectPanics(x, y, w, h),
         args  |-> [x |-> x, y |-> y, w |-> w, h |-> h]]

MinR(r, v) == IF r > v THEN v ELSE r

\* The bound of the radius draw for a centre: `r = i32::MAX` lowered to cx, cy,
\* WIDTH - cx and HEIGHT - cy in turn, then raised to 2.
RadiusBound[cx \in 0 .. (WIDTH - 1), cy \in 0 .. (HEIGHT - 1)] ==
    Max2(MinR(MinR(MinR(MinR(I32_MAX, cx), cy), WIDTH - cx), HEIGHT - cy))

\* layer_random_circle without its zero fill.
layer_random_circle_nozero(layer, g) ==
    LET cx == gen_range(g, 0, 0, WIDTH)
        cy == gen_range(g, 1, 0, HEIGHT)
        r == gen_range(g, 2, 1, RadiusBound[cx, cy])
    IN  [layer |-> layer_fill_circle(layer, cx, cy, r, 1),
         rng   |-> [g EXCEPT !.pos = g.pos + 3],
         panic |-> FillCirclePanics(cx, cy, r),
         args  |-> [cx |-> cx, cy |-> cy, r |-> r]]

\* layer_random_circle: the layer it leaves, the generator after its three draws,
\* the circle it drew and whether a fill panicked.
layer_random_circle(layer, g) ==
    LET zeroed == layer_fill_rect(layer, 0, 0, WIDTH, HEIGHT, 0)
        cx == gen_range(g, 0, 0, WIDTH)
        cy == gen_range(g, 1, 0, HEIGHT)
        r == gen_range(g, 2, 1, RadiusBound[cx, cy])
    IN  [layer |-> layer_fill_circle(zeroed, cx, cy, r, 1),
         rng   |-> [g EXCEPT !.pos = g.pos + 3],
         panic |-> FillRectPanics(0, 0, WIDTH, HEIGHT) \/ FillCirclePanics(cx, cy, r),
         args  |-> [cx |-> cx, cy |-> cy, r |-> r]]

----------------------------------------------------------------------------
\* main

NoOp == [op |-> "none"]

StreamSet == [1 .. StreamPeriod -> Words]

Init ==
    /\ pc = "check_rect"
    /\ stage = "untrained"
    /\ inputs = ZeroLayer
    /\ weights = ZeroLayer
    /\ streams \in [{TRAIN_SEED, CHECK_SEED} -> StreamSet]
    /\ rng = seed_from_u64(CHECK_SEED)
    /\ i = 0
    /\ adjusted = 0
    /\ count = 0
    /\ pass = 0
    /\ exit = "none"
    /\ snaps = << >>
    /\ passAdj = << >>
    /\ checkAdj = << >>
    /\ firstPass = << >>
    /\ mods = 0
    /\ passWeights = ZeroLayer
    /\ last = NoOp

\* check_pass, first half of an iteration: the rectangle sample.
CheckRect ==
    /\ pc = "check_rect"
    /\ i < SAMPLE_SIZE
    /\ \E g \in {layer_random_rect(inputs, rng)} :
       \E ff \in {feed_forward(g.layer, weights)} :
           /\ inputs' = g.layer
           /\ rng' = g.rng
           /\ pc' = IF g.panic THEN "panic" ELSE "check_circle"
           /\ adjusted' = IF ~g.panic /\ RectWrong(ff) THEN adjusted + 1 ELSE adjusted
           /\ last' = [op |-> "check_rect", args |-> g.args, ff |-> ff,
                       pre_inputs |-> inputs, pre_weights |-> weights]
    /\ UNCHANGED << stage, weights, streams, i, count, pass, exit, snaps,
                    passAdj, checkAdj, firstPass, mods, passWeights >>

\* check_pass, second half of an iteration: the circle sample.
CheckCircle ==
    /\ pc = "check_circle"
    /\ \E g \in {layer_random_circle(inputs, rng)} :
       \E ff \in {feed_forward(g.layer, weights)} :
           /\ inputs' = g.layer
           /\ rng' = g.rng
           /\ pc' = IF g.panic THEN "panic" ELSE "check_rect"
           /\ adjusted' = IF ~g.panic /\ CircleWrong(ff) THEN adjusted - 1 ELSE adjusted
           /\ i' = IF g.panic THEN i ELSE i + 1
           /\ last' = [op |-> "check_circle", args |-> g.args, ff |-> ff,
                       pre_inputs |-> inputs, pre_weights |-> weights]
    /\ UNCHANGED << stage, weights, streams, count, pass, exit, snaps,
                    passAdj, checkAdj, firstPass, mods, passWeights >>

\* check_pass returns to main: the fail rate is logged; after the first check the
\* training loop is entered, after the second main returns.
CheckReturn ==
    /\ pc = "check_rect"
    /\ i = SAMPLE_SIZE
    /\ stage \in {"untrained", "trained"}
    /\ checkAdj' = Append(checkAdj, adjusted)
    /\ IF stage = "untrained"
       THEN /\ stage' = "training"
            /\ pc' = "loop"
            /\ pass' = 0
       ELSE /\ pc' = "done"
            /\ UNCHANGED << stage, pass >>
    /\ last' = NoOp
    /\ UNCHANGED << inputs, weights, streams, rng, i, adjusted, count, exit,
                    snaps, passAdj, firstPass, mods, passWeights >>

\* PassRng with the generator built once, before the loop, and carried over.
PassRngCarried == IF pass = 0 THEN seed_from_u64(TRAIN_SEED) ELSE rng

\* `let mut rng = ChaCha8Rng::seed_from_u64(TRAIN_SEED);` inside the loop body.
PassRng == seed_from_u64(TRAIN_SEED)

\* main's `for i in 0..TRAIN_PASSES`: the next iteration re-seeds the training
\* generator and calls train_pass.
LoopEnter ==
    /\ pc = "loop"
    /\ pass < TRAIN_PASSES
    /\ rng' = PassRng
    /\ count' = 0
    /\ adjusted' = 0
    /\ i' = 0
    /\ pc' = "train_rect"
    /\ mods' = 0
    /\ passWeights' = weights
    /\ last' = NoOp
    /\ UNCHANGED << stage, inputs, weights, streams, pass, exit, snaps,
                    passAdj, checkAdj, firstPass >>

\* The second check of main, entered when the loop is left.
EnterCheck(how) ==
    /\ exit' = how
    /\ stage' = "trained"
    /\ rng' = seed_from_u64(CHECK_SEED)
    /\ adjusted' = 0
    /\ i' = 0
    /\ pc' = "check_rect"

\* The loop runs out of iterations.
LoopExit ==
    /\ pc = "loop"
    /\ ~(pass < TRAIN_PASSES)
    /\ EnterCheck("end")
    /\ last' = NoOp
    /\ UNCHANGED << inputs, weights, streams, count, pass, snaps, passAdj,
                    checkAdj, firstPass, mods, passWeights >>

\* layer_save_as_ppm(weights, "data/weights-{count:0>3}.ppm"): the sink is handed
\* the layer under the counter's value, and the write succeeds or fails.
Snapshot(n, layer, saved) == [name |-> n, layer |-> layer, saved |-> saved]

Record(mask) == IF pass = 0 THEN Append(firstPass, mask) ELSE firstPass

\* train_pass, first half of an iteration: the rectangle sample.
TrainRect ==
    /\ pc = "train_rect"
    /\ i < SAMPLE_SIZE
    /\ \E g \in {layer_random_rect(inputs, rng)} :
       \E ff \in {feed_forward(g.layer, weights)} :
           /\ inputs' = g.layer
           /\ rng' = g.rng
           /\ firstPass' = Record(g.layer)
           /\ last' = [op |-> "train_rect", args |-> g.args, ff |-> ff,
                       pre_inputs |-> inputs, pre_weights |-> weights]
           /\ IF g.panic
              THEN /\ pc' = "panic"
                   /\ UNCHANGED << weights, count, snaps, adjusted >>
              ELSE IF RectWrong(ff)
              THEN /\ weights' = sub_inputs_from_weights(g.layer, weights)
                   /\ count' = count + 1
                   /\ \E saved \in BOOLEAN :
                        /\ snaps' = Append(snaps, Snapshot(count, weights', saved))
                        /\ IF saved
                           THEN adjusted' = adjusted + 1 /\ pc' = "train_circle"
                           ELSE adjusted' = adjusted /\ pc' = "failed"
              ELSE /\ pc' = "train_circle"
                   /\ UNCHANGED << weights, count, snaps, adjusted >>
    /\ mods' = IF weights' # weights THEN mods + 1 ELSE mods
    /\ UNCHANGED << stage, streams, i, pass, exit, passAdj, checkAdj, passWeights >>

\* train_pass, second half of an iteration: the circle sample.
TrainCircle ==
    /\ pc = "train_circle"
    /\ \E g \in {layer_random_circle(inputs, rng)} :
       \E ff \in {feed_forward(g.layer, weights)} :
           /\ inputs' = g.layer
           /\ rng' = g.rng
           /\ firstPass' = Record(g.layer)
           /\ last' = [op |-> "train_circle", args |-> g.args, ff |-> ff,
                       pre_inputs |-> inputs, pre_weights |-> weights]
           /\ IF g.panic
              THEN /\ pc' = "panic"
                   /\ UNCHANGED << weights, count, snaps, adjusted, i >>
              ELSE IF CircleWrong(ff)
              THEN /\ weights' = add_inputs_from_weights(g.layer, weights)
                   /\ count' = count + 1
                   /\ \E saved \in BOOLEAN :
                        /\ snaps' = Append(snaps, Snapshot(count, weights', saved))
                        /\ IF saved
                           THEN adjusted' = adjusted + 1 /\ pc' = "train_rect" /\ i' = i + 1
                           ELSE adjusted' = adjusted /\ pc' = "failed" /\ i' = i
              ELSE /\ pc' = "train_rect"
                   /\ i' = i + 1
                   /\ UNCHANGED << weights, count, snaps, adjusted >>
    /\ mods' = IF weights' # weights THEN mods + 1 ELSE mods
    /\ UNCHANGED << stage, streams, pass, exit, passAdj, checkAdj, passWeights >>

\* LoopBreaks with the break never taken.
LoopBreaksNever(adj) == adj < 0

\* LoopBreaks with the break taken one correction early.
LoopBreaksLe1(adj) == adj <= 1

\* `if adj <= 0 { break; }`
LoopBreaks(adj) == adj <= 0

\* train_pass returns Ok(adjusted) to main, which breaks or goes on.
TrainReturn ==
    /\ pc = "train_rect"
    /\ i = SAMPLE_SIZE
    /\ passAdj' = Append(passAdj, adjusted)
    /\ pass' = pass + 1
    /\ IF LoopBreaks(adjusted)
       THEN EnterCheck("break")
       ELSE /\ pc' = "loop"
            /\ UNCHANGED << exit, stage, rng, adjusted, i >>
    /\ last' = NoOp
    /\ UNCHANGED << inputs, weights, streams, count, snaps, checkAdj, firstPass,
                    mods, passWeights >>

Next ==
    \/ CheckRect
    \/ CheckCircle
    \/ CheckReturn
    \/ LoopEnter
    \/ LoopExit
    \/ TrainRect
    \/ TrainCircle
    \/ TrainReturn

Spec == Init /\ [][Next]_vars

\* main is one thread that runs until it returns: a step that can be taken is
\* eventually taken.
FairSpec == Spec /\ WF_vars(Next)

----------------------------------------------------------------------------
\* The fill primitives applied to arbitrary arguments: one call of
\* layer_fill_rect or layer_fill_circle on a layer drawn from FillLayers.

\* A layer whose cells all differ, and differ from every fill value.
Distinct == [y \in Rows |-> [x \in Cols |-> 2 + y * HEIGHT + x]]

FillLayers == {ZeroLayer, Uniform(1), Distinct}

Coords == (0 - MaxOff) .. (WIDTH - 1 + MaxOff)

Extents == 0 .. MaxExtent

FixedStreams == [s \in {TRAIN_SEED, CHECK_SEED} |-> [k \in 1 .. StreamPeriod |-> 0]]

\* Every variable the harnesses do not use.
Idle ==
    /\ i = 0
    /\ adjusted = 0
    /\ count = 0
    /\ pass = 0
    /\ exit = "none"
    /\ snaps = << >>
    /\ passAdj = << >>
    /\ checkAdj = << >>
    /\ firstPass = << >>
    /\ mods = 0
    /\ passWeights = ZeroLayer
    /\ last = NoOp

FillInit ==
    /\ pc = "fill"
    /\ stage = "harness"
    /\ inputs \in FillLayers
    /\ weights = ZeroLayer
    /\ streams = FixedStreams
    /\ rng = seed_from_u64(CHECK_SEED)
    /\ Idle

FillRect ==
    /\ pc = "fill"
    /\ \E x \in Coords, y \in Coords, w \in Extents, h \in Extents, value \in {0, 1} :
         /\ last' = [op |-> "fill_rect", pre_inputs |-> inputs,
                     args |-> [x |-> x, y |-> y, w |-> w, h |-> h, value |-> value]]
         /\ IF FillRectPanics(x, y, w, h)
            THEN pc' = "panic" /\ inputs' = inputs
            ELSE pc' = "filled" /\ inputs' = layer_fill_rect(inputs, x, y, w, h, value)
    /\ UNCHANGED << stage, weights, streams, rng, i, adjusted, count, pass, exit,
                    snaps, passAdj, checkAdj, firstPass, mods, passWeights >>

FillCircle ==
    /\ pc = "fill"
    /\ \E cx \in Coords, cy \in Coords, r \in Extents, value \in {0, 1} :
         /\ last' = [op |-> "fill_circle", pre_inputs |-> inputs,
                     args |-> [cx |-> cx, cy |-> cy, r |-> r, value |-> value]]
         /\ IF FillCirclePanics(cx, cy, r)
            THEN pc' = "panic" /\ inputs' = inputs
            ELSE pc' = "filled" /\ inputs' = layer_fill_circle(inputs, cx, cy, r, value)
    /\ UNCHANGED << stage, weights, streams, rng, i, adjusted, count, pass, exit,
                    snaps, passAdj, checkAdj, firstPass, mods, passWeights >>

FillNext ==
    \/ FillRect
    \/ FillCircle

FillSpec == FillInit /\ [][FillNext]_vars

----------------------------------------------------------------------------
\* check_pass called twice on the same weights, each time with a generator
\* freshly built from CHECK_SEED, from an arbitrary input layer.

Checker(a, b) == [y \in Rows |-> [x \in Cols |-> IF (x + y) % 2 = 0 THEN a ELSE b]]

HarnessWeights ==
    {Checker(a, b) : a \in (0 - MaxWeight) .. MaxWeight, b \in (0 - MaxWeight) .. MaxWeight}

CheckInit ==
    /\ pc = "check_rect"
    /\ stage = "harness"
    /\ inputs \in FillLayers
    /\ weights \in HarnessWeights
    /\ streams \in {f \in [{TRAIN_SEED, CHECK_SEED} -> StreamSet] :
                      f[TRAIN_SEED] = FixedStreams[TRAIN_SEED]}
    /\ rng = seed_from_u64(CHECK_SEED)
    /\ Idle

\* The first call returns and the second is made; the second returns.
CheckAgain ==
    /\ pc = "check_rect"
    /\ i = SAMPLE_SIZE
    /\ stage = "harness"
    /\ checkAdj' = Append(checkAdj, adjusted)
    /\ IF Len(checkAdj) = 0
       THEN /\ rng' = seed_from_u64(CHECK_SEED)
            /\ adjusted' = 0
            /\ i' = 0
            /\ pc' = "check_rect"
       ELSE /\ pc' = "done"
            /\ UNCHANGED << rng, adjusted, i >>
    /\ last' = NoOp
    /\ UNCHANGED << stage, inputs, weights, streams, count, pass, exit, snaps,
                    passAdj, firstPass, mods, passWeights >>

CheckNext ==
    \/ CheckRect
    \/ CheckCircle
    \/ CheckAgain

CheckSpec == CheckInit /\ [][CheckNext]_vars

----------------------------------------------------------------------------
\* Properties

Cells == Rows \X Cols

TrainOps == {"train_rect", "train_circle"}

\* What one sample step of train_pass must do: `wrong` is the comparison that
\* triggers a correction, `sign` the direction of the correction.
C1_SampleStep(wrong(_), sign) ==
    LET ff == feed_forward(inputs', weights)
        changed == weights' # weights
    IN  /\ changed <=> wrong(ff)
        /\ (ff = BIAS) => ~changed
        /\ changed => \A c \in Cells :
                         weights'[c[1]][c[2]] = weights[c[1]][c[2]] + sign * inputs'[c[1]][c[2]]
        /\ IF changed
           THEN /\ Len(snaps') = Len(snaps) + 1
                /\ snaps'[Len(snaps')].layer = weights'
                /\ snaps'[Len(snaps')].saved <=> pc' # "failed"
           ELSE snaps' = snaps /\ pc' # "failed"
        /\ (pc' # "failed") => adjusted' = adjusted + (IF changed THEN 1 ELSE 0)

C1_Above(ff) == ff > BIAS

C1_Below(ff) == ff < BIAS

C1_Step ==
    /\ (pc = "train_rect" /\ i < SAMPLE_SIZE /\ pc' # "panic")
           => C1_SampleStep(C1_Above, 0 - 1)
    /\ (pc = "train_circle" /\ pc' # "panic")
           => C1_SampleStep(C1_Below, 1)
    /\ (pc = "train_rect" /\ i = SAMPLE_SIZE)
           => passAdj' = Append(passAdj, mods)

\* C1: in train_pass a rectangle sample changes the weights (to weights - input,
\* cell by cell) exactly when its response is > BIAS, a circle sample changes
\* them (to weights + input) exactly when its response is < BIAS, a response
\* equal to BIAS changes nothing; every change is followed by one snapshot of
\* the updated weights, and the count the pass returns is the number of samples
\* that changed the weights.
C1_TrainPass == [][C1_Step]_vars

\* A sample scored exactly BIAS in a pass that corrected, after a rectangle
\* correction had been snapshotted.
C1_Witness ==
    /\ last.op \in TrainOps
    /\ last.ff = BIAS
    /\ mods >= 1
    /\ \E k \in 1 .. Len(snaps) : \E c \in Cells : snaps[k].layer[c[1]][c[2]] < 0

\* The passes completed so far and the way the loop was left agree with the
\* loop's exit rule.
C2_Safe ==
    /\ pass = Len(passAdj)
    /\ Len(passAdj) <= TRAIN_PASSES
    /\ \A k \in 1 .. Len(passAdj) - 1 : passAdj[k] > 0
    /\ (exit = "none" /\ pc # "failed") => \A k \in 1 .. Len(passAdj) : passAdj[k] > 0
    /\ (exit = "break") => (Len(passAdj) >= 1 /\ passAdj[Len(passAdj)] = 0)
    /\ (exit = "end") => (Len(passAdj) = TRAIN_PASSES /\ passAdj[TRAIN_PASSES] > 0)
    /\ (stage = "trained") <=> (exit # "none")
    /\ pc # "panic"

\* C2: the training loop stops right after the first pass that returns zero
\* corrections, otherwise after exactly TRAIN_PASSES passes; it never runs more
\* than TRAIN_PASSES passes and, unless a snapshot write fails, main reaches
\* its end.
C2_LoopStops == []C2_Safe /\ <>(pc = "done" \/ pc = "failed")

\* The loop ran out of passes and main returned.
C2_Witness == pc = "done" /\ exit = "end" /\ Len(passAdj) = TRAIN_PASSES

\* A step of check_pass keeps the weights; a second returned count equals the first.
C3_Step ==
    /\ (pc \in {"check_rect", "check_circle"}) => weights' = weights
    /\ (Len(checkAdj') = 2) => checkAdj'[1] = checkAdj'[2]

\* C3: check_pass never changes the weights, and two calls with a generator
\* freshly built from the same seed, on the same weights, return the same count
\* whatever the input layer held before each call.
C3_CheckPure == [][C3_Step]_vars

\* Both calls returned and samples of both kinds were miscounted.
C3_Witness ==
    /\ pc = "done"
    /\ stage = "harness"
    /\ Len(checkAdj) = 2
    /\ checkAdj[1] > 0

\* C4: before any training every sample of the check has response 0, and the
\* reported fail rate, adj / (2 * SAMPLE_SIZE), is exactly 0.5.
C4_UntrainedRate ==
    /\ (stage = "untrained" /\ last.op \in {"check_rect", "check_circle"}) => last.ff = 0
    /\ (Len(checkAdj) >= 1) => 2 * checkAdj[1] = 2 * SAMPLE_SIZE

\* C5: every training pass starts from a generator freshly built from
\* TRAIN_SEED, so the masks of every later pass are those of the first pass,
\* index by index.
C5_SameSamples ==
    /\ (pc = "train_rect" /\ i = 0) => rng = [seed |-> TRAIN_SEED, pos |-> 0]
    /\ (pass >= 1 /\ last.op = "train_rect" /\ pc # "panic")
           => inputs = firstPass[2 * i + 1]
    /\ (pass >= 1 /\ last.op = "train_circle" /\ pc = "train_rect")
           => inputs = firstPass[2 * i]
    /\ (pass >= 1 /\ last.op = "train_circle" /\ pc = "failed")
           => inputs = firstPass[2 * i + 2]

\* The third pass has presented its last sample, after a pass that corrected.
C5_Witness ==
    /\ pass = 2
    /\ last.op = "train_circle"
    /\ pc = "train_rect"
    /\ i = SAMPLE_SIZE
    /\ passAdj[2] >= 2
    /\ firstPass[1] # firstPass[3]

\* The bounding boxes the claims C6 and C8 name.
ClaimedRectBox(x, y, w, h) ==
    LET x0 == clampi(x, 0, WIDTH - 1)
        y0 == clampi(y, 0, HEIGHT - 1)
    IN  {c \in Cells : /\ c[2] \in x0 .. clampi(x0 + w - 1, 0, WIDTH - 1)
                       /\ c[1] \in y0 .. clampi(y0 + h - 1, 0, HEIGHT - 1)}

ClaimedCircleBox(cx, cy, r) ==
    {c \in Cells : /\ c[2] \in clampi(cx - r, 0, WIDTH - 1) .. clampi(cx + r, 0, WIDTH - 1)
                   /\ c[1] \in clampi(cy - r, 0, HEIGHT - 1) .. clampi(cy + r, 0, HEIGHT - 1)}

Untouched(box) ==
    \A c \in Cells \ box : inputs[c[1]][c[2]] = last.pre_inputs[c[1]][c[2]]

\* C6: with positive extents the fills touch only in-bounds cells and change no
\* cell outside the clamped bounding box of the shape.
C6_FillFrame ==
    /\ (last.op = "fill_rect" /\ last.args.w > 0 /\ last.args.h > 0)
           => /\ pc = "filled"
              /\ Untouched(ClaimedRectBox(last.args.x, last.args.y, last.args.w, last.args.h))
    /\ (last.op = "fill_circle" /\ last.args.r > 0)
           => /\ pc = "filled"
              /\ Untouched(ClaimedCircleBox(last.args.cx, last.args.cy, last.args.r))

\* C7: every snapshot written in a run is named by a counter value greater than
\* that of every snapshot written earlier in the run.
C7_NamesIncrease ==
    \A a \in 1 .. Len(snaps), b \in 1 .. Len(snaps) :
        (a < b /\ snaps[a].saved /\ snaps[b].saved) => snaps[a].name < snaps[b].name

\* C8: fill_rect sets exactly the cells of columns x0..x1 and rows y0..y1, the
\* rows being derived from h.
C8_RectFromH ==
    (last.op = "fill_rect" /\ pc = "filled")
        => LET a == last.args
               box == ClaimedRectBox(a.x, a.y, a.w, a.h)
           IN  \A c \in Cells :
                   inputs[c[1]][c[2]] =
                       IF c \in box THEN a.value ELSE last.pre_inputs[c[1]][c[2]]

\* C9: after random_rect and random_circle the input layer is a binary mask
\* whose ones are exactly the cells stamped by this call, whatever the layer
\* held before, and no fill assertion fails.
MaskOf(cells) == [y \in Rows |-> [x \in Cols |-> IF <<y, x>> \in cells THEN 1 ELSE 0]]

C9_FreshMask ==
    /\ pc # "panic"
    /\ (last.op \in {"check_rect", "train_rect"})
           => /\ last.args.w >= 1
              /\ last.args.h >= 1
              /\ inputs = MaskOf(FillRectCells(last.args.x, last.args.y,
                                               last.args.w, last.args.h))
    /\ (last.op \in {"check_circle", "train_circle"})
           => /\ last.args.r >= 1
              /\ inputs = MaskOf(FillCircleCells(last.args.cx, last.args.cy, last.args.r))

\* A rectangle was generated over a layer that held neither zeros nor ones.
C9_Witness ==
    /\ last.op = "check_rect"
    /\ last.pre_inputs = Distinct
    /\ pc = "check_circle"
    /\ last.args.w = 2

\* The samples of the training stream.
TrainRectMask(k) ==
    layer_random_rect(ZeroLayer, [seed |-> TRAIN_SEED, pos |-> 7 * k]).layer

TrainCircleMask(k) ==
    layer_random_circle(ZeroLayer, [seed |-> TRAIN_SEED, pos |-> 7 * k + 4]).layer

\* C10: when the loop is left by the break, the last pass changed no weight and
\* the final weights score every training rectangle <= BIAS and every training
\* circle >= BIAS; and the first pass always corrects, so the loop never breaks
\* after its first pass.
C10_Converged ==
    /\ (Len(passAdj) >= 1) => passAdj[1] >= 1
    /\ (exit = "break")
           => /\ Len(passAdj) >= 2
              /\ mods = 0
              /\ weights = passWeights
              /\ \A k \in 0 .. SAMPLE_SIZE - 1 :
                    /\ feed_forward(TrainRectMask(k), weights) <= BIAS
                    /\ feed_forward(TrainCircleMask(k), weights) >= BIAS

\* The loop broke after a pass that followed a rectangle correction.
C10_Witness ==
    /\ exit = "break"
    /\ pc = "done"
    /\ \E c \in Cells : weights[c[1]][c[2]] < 0

=============================================================================
